---- MODULE Spec2Model ----
(***************************************************************************)
(* A model of the typed core of the graph builder: the Type lattice        *)
(* (steelix/_type_system.py), attribute values (spox/_attributes.py) and   *)
(* propagated values (spox/_value_prop.py), and the public functions       *)
(* argument, build and inline (spox/_public.py).                           *)
(*                                                                         *)
(* Python objects are encoded as tagged tuples, the tag being the class:   *)
(*   Type()                 <<"Type">>                                     *)
(*   Tensor(e, shape)       <<"Tensor", e, shape>>                         *)
(*   Sequence(t)            <<"Sequence", t>>                              *)
(*   Optional(t)            <<"Optional", t>>                              *)
(*   Shape, unknown rank    <<"NoRank">>                                   *)
(*   Shape, known rank      <<"Dims", <<d1, ..., dn>>>>                    *)
(*   a dimension            <<"int", n>>, <<"str", name>>, <<"None">>      *)
(* Dataclass equality (same class, equal fields) is equality of tuples.    *)
(***************************************************************************)
EXTENDS Integers, Sequences, FiniteSets, TLC

VARIABLES
    typeOp,     \* the last Type operation applied: operands and result
    strict,     \* VALUE_PROP_STRICT_CHECK
    pv,         \* the PropValue most recently constructed
    propOp,     \* the last PropValue operation: what it was and how it ended
    raw,        \* the backend value produced by the last to_*_value
    back,       \* the PropValue produced by the last from_*_value
    attrs,      \* the attribute objects constructed so far
    attrOp,     \* the last attribute operation: what it was and how it ended
    proto,      \* the AttributeProto produced by the last _to_onnx
    walk,       \* the position of a running Attr.value read
    alias,      \* where the attributes hold objects the caller still holds
    inlineOp,   \* the last call of an inline callback: arguments and outcome
    buildSt     \* the position of a running build and the names of the Vars

vars == <<typeOp, strict, pv, propOp, raw, back, attrs, attrOp, proto, walk,
          alias, inlineOp, buildSt>>
typeVars == <<typeOp>>
propVars == <<strict, pv, propOp, raw, back>>
attrVars == <<attrs, attrOp, proto, walk, alias>>
publicVars == <<inlineOp, buildSt>>

None == <<"None">>

----------------------------------------------------------------------------
(* Bounds of the explored inputs.                                          *)

MaxRank == 2
MaxNest == 1
MaxWrap == 2
MaxLen == 2
MaxRefs == 2
MaxInputs == 2
MaxArgs == 3

----------------------------------------------------------------------------
(* Shape algebra.                                                          *)

NoRank == <<"NoRank">>
Dims(ds) == <<"Dims", ds>>
HasRank(s) == s[1] = "Dims"
Rank(s) == Len(s[2])

DimValues == {<<"int", 3>>, <<"int", 5>>, <<"str", "M">>, <<"str", "N">>, None}

TuplesUpTo(S, n) == UNION {[1..k -> S] : k \in 0..n}

Shapes == {NoRank} \cup {Dims(ds) : ds \in TuplesUpTo(DimValues, MaxRank)}

\* x <= y on dimensions: an unknown dimension on the right matches anything.
DimLe(x, y) == y = None \/ x = y

\* self <= other on shapes.
ShapeLe(s, o) ==
    IF ~HasRank(s) \/ ~HasRank(o) THEN TRUE
    ELSE /\ Rank(s) = Rank(o)
         /\ \A i \in 1..Rank(s) : DimLe(s[2][i], o[2][i])

\* self | other on shapes.
ShapeOr(s, o) ==
    IF ~HasRank(s) \/ ~HasRank(o) THEN NoRank
    ELSE IF Rank(s) # Rank(o) THEN NoRank
    ELSE Dims([i \in 1..Rank(s) |-> IF s[2][i] = o[2][i] THEN s[2][i] ELSE None])

----------------------------------------------------------------------------
(* The Type lattice.                                                       *)

Unknown == <<"Type">>
Tensor(e, s) == <<"Tensor", e, s>>
SequenceT(t) == <<"Sequence", t>>
OptionalT(t) == <<"Optional", t>>

IsTensor(t) == t[1] = "Tensor"
IsSequence(t) == t[1] = "Sequence"
IsOptional(t) == t[1] = "Optional"
IsUnknown(t) == t[1] = "Type"

\* Members of Tensor.VALID_TYPES used as element kinds.
ElemKinds == {"int64", "float32"}

\* issubclass on the numpy scalar classes of VALID_TYPES: they are leaf
\* classes, none derives from another.
IsSubclass(e1, e2) == e1 = e2

TensorTypes == {Tensor(e, s) : e \in ElemKinds, s \in Shapes}

RECURSIVE TypesOfNest(_)
TypesOfNest(n) ==
    IF n = 0 THEN {Unknown} \cup TensorTypes
    ELSE LET inner == TypesOfNest(n - 1)
         IN  inner \cup {SequenceT(t) : t \in inner} \cup {OptionalT(t) : t \in inner}

Types == TypesOfNest(MaxNest)

RECURSIVE TypeLe(_, _)
\* Type.__le__ (the base class: self is Type()).
BaseLe(self, other) == self = Unknown \/ other = Unknown \/ self = other

\* Tensor.__le__
TensorLe(self, other) ==
    IF other = Unknown \/ self = other THEN TRUE
    ELSE IF ~IsTensor(other) THEN FALSE
    ELSE IsSubclass(self[2], other[2]) /\ ShapeLe(self[3], other[3])

\* Sequence.__le__
SequenceLe(self, other) ==
    IF other = Unknown \/ self = other THEN TRUE
    ELSE IF ~IsSequence(other) THEN FALSE
    ELSE TypeLe(self[2], other[2])

\* Optional.__le__
OptionalLe(self, other) ==
    IF other = Unknown \/ self = other THEN TRUE
    ELSE IF ~IsOptional(other) THEN FALSE
    ELSE TypeLe(self[2], other[2])

\* self <= other: Python dispatches on the class of self.
TypeLe(self, other) ==
    CASE IsTensor(self)   -> TensorLe(self, other)
      [] IsSequence(self) -> SequenceLe(self, other)
      [] IsOptional(self) -> OptionalLe(self, other)
      [] OTHER            -> BaseLe(self, other)

RECURSIVE TypeOr(_, _)
\* Type.__or__ (the base class).
BaseOr(self, other) == IF self = other THEN self ELSE Unknown

\* Tensor.__or__ without the element-kind test.
TensorOrAnyKind(self, other) ==
    IF ~IsTensor(other) THEN Unknown
    ELSE Tensor(self[2], ShapeOr(self[3], other[3]))

\* Tensor.__or__
TensorOr(self, other) ==
    IF ~IsTensor(other) THEN Unknown
    ELSE IF self[2] # other[2] THEN Unknown
    ELSE Tensor(self[2], ShapeOr(self[3], other[3]))

\* Sequence.__or__ that keeps its own element type instead of joining.
SequenceOrKeepsSelf(self, other) ==
    IF ~IsSequence(other) THEN Unknown
    ELSE SequenceT(self[2])

\* Sequence.__or__
SequenceOr(self, other) ==
    IF ~IsSequence(other) THEN Unknown
    ELSE SequenceT(TypeOr(self[2], other[2]))

\* Optional.__or__
OptionalOr(self, other) ==
    IF ~IsOptional(other) THEN Unknown
    ELSE OptionalT(TypeOr(self[2], other[2]))

\* self | other
TypeOr(self, other) ==
    CASE IsTensor(self)   -> TensorOr(self, other)
      [] IsSequence(self) -> SequenceOr(self, other)
      [] IsOptional(self) -> OptionalOr(self, other)
      [] OTHER            -> BaseOr(self, other)

\* Type._assert_concrete (the base class; Sequence and Optional inherit it).
BaseAssertConcrete(self) == self

\* Tensor._assert_concrete: _shape holds the Shape object that __init__ made,
\* which is never the None object, whatever its rank.
TensorAssertConcrete(self) ==
    IF self[3] = None THEN <<"Error", "ValueError">> ELSE self

\* self._assert_concrete(): self, or the exception raised.
assert_concrete(self) ==
    IF IsTensor(self) THEN TensorAssertConcrete(self)
    ELSE BaseAssertConcrete(self)

\* Type._is_concrete
is_concrete(self) == assert_concrete(self)[1] # "Error"

----------------------------------------------------------------------------
(* The Type operations as steps: a caller holds two Types and compares or  *)
(* joins them, or asks whether the first is concrete.  typeOp is           *)
(* <<"args", a, b>> before the operation and <<"le", a, b, result>>,       *)
(* <<"or", a, b, result>> or                                               *)
(* <<"assert_concrete", a, a._assert_concrete(), a._is_concrete>> after.   *)

NoOp == <<"none">>
Absent == <<"absent">>

\* a <= b
Le ==
    /\ typeOp[1] = "args"
    /\ typeOp' = <<"le", typeOp[2], typeOp[3], TypeLe(typeOp[2], typeOp[3])>>
    /\ UNCHANGED <<propVars, attrVars, publicVars>>

\* a | b
Or ==
    /\ typeOp[1] = "args"
    /\ typeOp' = <<"or", typeOp[2], typeOp[3], TypeOr(typeOp[2], typeOp[3])>>
    /\ UNCHANGED <<propVars, attrVars, publicVars>>

\* a._assert_concrete() and a._is_concrete
AssertConcrete ==
    /\ typeOp[1] = "args"
    /\ typeOp' = <<"assert_concrete", typeOp[2], assert_concrete(typeOp[2]),
                   is_concrete(typeOp[2])>>
    /\ UNCHANGED <<propVars, attrVars, publicVars>>

TypeInit ==
    /\ \E a \in Types, b \in Types : typeOp = <<"args", a, b>>
    /\ strict = FALSE
    /\ pv = Absent
    /\ propOp = NoOp
    /\ raw = Absent
    /\ back = Absent
    /\ attrs = <<>>
    /\ attrOp = NoOp
    /\ proto = Absent
    /\ walk = Absent
    /\ alias = {}
    /\ inlineOp = NoOp
    /\ buildSt = NoOp

TypeNext == Le \/ Or \/ AssertConcrete

TypeSpec == TypeInit /\ [][TypeNext]_vars

----------------------------------------------------------------------------
(* Claims about the Type lattice.                                          *)

SameVariant(a, b) == a[1] = b[1]

RECURSIVE StatedLe(_, _)
\* The subtype relation as the specification states it.
StatedLe(a, b) ==
    IF b = Unknown \/ a = b THEN TRUE
    ELSE IF ~SameVariant(a, b) THEN FALSE
    ELSE IF IsTensor(a) THEN a[2] = b[2] /\ ShapeLe(a[3], b[3])
    ELSE StatedLe(a[2], b[2])

\* C3: a <= b is true whenever b is Unknown or a = b, for two Tensors exactly
\* when the element kinds are identical and shape(a) <= shape(b), for two
\* Sequences or two Optionals exactly when element(a) <= element(b), and
\* false for different variants with b not Unknown (so Unknown <= Tensor(...)
\* is false).
C3_LeAgreesWithStatedRelation ==
    typeOp[1] = "le" => typeOp[4] = StatedLe(typeOp[2], typeOp[3])

RECURSIVE StatedOr(_, _)
\* The join as the specification states it.
StatedOr(a, b) ==
    IF a = b THEN a
    ELSE IF ~SameVariant(a, b) THEN Unknown
    ELSE IF IsTensor(a) THEN
        IF a[2] # b[2] THEN Unknown
        ELSE IF ~HasRank(a[3]) \/ ~HasRank(b[3]) THEN Tensor(a[2], NoRank)
        ELSE IF Rank(a[3]) # Rank(b[3]) THEN Tensor(a[2], NoRank)
        ELSE Tensor(a[2], Dims([i \in 1..Rank(a[3]) |->
                 IF a[3][2][i] = b[3][2][i] THEN a[3][2][i] ELSE None]))
    ELSE <<a[1], StatedOr(a[2], b[2])>>

Int64Of(ds) == Tensor("int64", Dims(ds))

\* C4: a | b is a when a = b; Unknown when the variants differ or two Tensors
\* differ in element kind; a Sequence/Optional of the joined elements for two
\* Sequences/Optionals; for two Tensors of one element kind the Tensor of the
\* joined shape: unknown rank when the ranks differ (rank 0 is a rank), and
\* for equal ranks every agreeing axis kept and every other axis unknown.
C4_OrFollowsStatedJoin ==
    typeOp[1] = "or" =>
        LET a == typeOp[2]
            b == typeOp[3]
            r == typeOp[4]
        IN  /\ r = StatedOr(a, b)
            /\ (a = b => r = a)
            /\ (~SameVariant(a, b) => r = Unknown)
            /\ (a = Int64Of(<<<<"int", 3>>, <<"int", 5>>>>) /\ b = Int64Of(<<>>)
                    => r = Tensor("int64", NoRank))
            /\ (a = Int64Of(<<<<"str", "M">>, <<"int", 3>>>>)
                  /\ b = Int64Of(<<<<"str", "M">>, <<"str", "N">>>>)
                    => r = Int64Of(<<<<"str", "M">>, None>>))

\* A join of two Tensors of equal rank that disagree on one axis was taken.
C4_Witness ==
    /\ typeOp[1] = "or"
    /\ typeOp[2] = Int64Of(<<<<"str", "M">>, <<"int", 3>>>>)
    /\ typeOp[3] = Int64Of(<<<<"str", "M">>, <<"str", "N">>>>)
    /\ typeOp[4] = Int64Of(<<<<"str", "M">>, None>>)

RECURSIVE StatedConcrete(_)
\* Concreteness as the specification states it: a Tensor of known rank, a
\* Sequence or Optional of a concrete element.
StatedConcrete(t) ==
    IF IsTensor(t) THEN HasRank(t[3])
    ELSE IF IsSequence(t) \/ IsOptional(t) THEN StatedConcrete(t[2])
    ELSE TRUE

\* C11: _assert_concrete raises for every Tensor of unknown rank and for
\* every Sequence or Optional with such a Tensor nested in it, returns the
\* type for a Tensor of known rank (rank 0 included), and _is_concrete is
\* false exactly for the types it raises for.
C11_AssertConcreteRejectsUnknownRank ==
    typeOp[1] = "assert_concrete" =>
        /\ typeOp[4] = StatedConcrete(typeOp[2])
        /\ typeOp[4] => typeOp[3] = typeOp[2]
        /\ ~typeOp[4] => typeOp[3][1] = "Error"

\* C15: the join is an upper bound of both operands in the subtype order,
\* and joining in either order gives the same Type.
C15_JoinIsCommutativeUpperBound ==
    typeOp[1] = "or" =>
        /\ TypeLe(typeOp[2], typeOp[4])
        /\ TypeLe(typeOp[3], typeOp[4])
        /\ typeOp[4] = TypeOr(typeOp[3], typeOp[2])

\* Two Sequences of Tensors of one kind and different dimensions were joined
\* to a Sequence that is neither of them.
C15_Witness ==
    /\ typeOp[1] = "or"
    /\ typeOp[2] = SequenceT(Int64Of(<<<<"int", 3>>>>))
    /\ typeOp[3] = SequenceT(Int64Of(<<<<"int", 5>>>>))
    /\ typeOp[4] = SequenceT(Int64Of(<<None>>))

----------------------------------------------------------------------------
(* Propagated values.                                                      *)
(*   PropValue(type, value)   <<"PropValue", type, value>>                 *)
(*   numpy.ndarray            <<"ndarray", dtype, shape>>, shape a tuple   *)
(*                            of integers                                  *)
(*   list                     <<"list", <<e1, ..., en>>>>                  *)
(*   None                     <<"None">>                                   *)
(*   a raised exception       <<"Error", class>>                           *)
(* A backend value (RefValue, ORTValue) is None, an ndarray or a list.     *)

PropValue(t, v) == <<"PropValue", t, v>>
NdArray(dtype, shape) == <<"ndarray", dtype, shape>>
List(es) == <<"list", es>>
Error(cls) == <<"Error", cls>>

IsPropValue(v) == v[1] = "PropValue"
IsNdArray(v) == v[1] = "ndarray"
IsList(v) == v[1] = "list"
IsError(v) == v[1] = "Error"

\* np.issubdtype(dtype, np.number)
IsNumberDtype(d) == d \in {"int64", "longlong", "float32"}

\* np.dtype(dtype.name): a platform alias has the name of the sized dtype.
DtypeByName(d) == IF d = "longlong" THEN "int64" ELSE d

\* Shape.from_simple(value.shape)
ShapeFromSimple(shape) == Dims([i \in 1..Len(shape) |-> <<"int", shape[i]>>])

\* The first failure among the results of a comprehension, if any.
FirstError(rs) ==
    IF \E i \in 1..Len(rs) : IsError(rs[i])
    THEN rs[CHOOSE i \in 1..Len(rs) :
                /\ IsError(rs[i])
                /\ \A j \in 1..(i - 1) : ~IsError(rs[j])]
    ELSE None

\* PropValue.check, on the fields of self.
CheckFields(t, v) ==
    IF IsTensor(t) THEN
        IF ~(IsNdArray(v) /\ ShapeLe(ShapeFromSimple(v[3]), t[3])) THEN FALSE
        ELSE IF v[2] = "object" /\ t[2] = "str" THEN TRUE
        ELSE v[2] = t[2]
    ELSE IF IsSequence(t) THEN
        IsList(v) /\ \A i \in 1..Len(v[2]) : TypeLe(v[2][i][2], t[2])
    ELSE IF IsOptional(t) THEN
        v = None \/ IsPropValue(v)
    ELSE TRUE

\* PropValue.check emits the InferenceWarning exactly on its last branch.
CheckWarns(t) == ~IsTensor(t) /\ ~IsSequence(t) /\ ~IsOptional(t)

check(self) == CheckFields(self[2], self[3])

\* PropValue.__post_init__ that validates whatever the flag says.
NewPropValueAlwaysChecked(t, v, flag) ==
    LET value == IF IsNdArray(v) /\ IsNumberDtype(v[2])
                 THEN NdArray(DtypeByName(v[2]), v[3])
                 ELSE v
    IN  IF ~CheckFields(t, value) THEN Error("ValueError") ELSE PropValue(t, value)

\* PropValue(t, v): the dataclass constructor followed by __post_init__,
\* with VALUE_PROP_STRICT_CHECK read as flag.
NewPropValue(t, v, flag) ==
    LET value == IF IsNdArray(v) /\ IsNumberDtype(v[2])
                 THEN NdArray(DtypeByName(v[2]), v[3])
                 ELSE v
    IN  IF flag /\ ~CheckFields(t, value) THEN Error("ValueError")
        ELSE PropValue(t, value)

RECURSIVE from_ref_value(_, _, _)
\* PropValue.from_ref_value(typ, value)
from_ref_value(typ, value, flag) ==
    LET val == IF ~IsSequence(typ) /\ IsList(value) /\ Len(value[2]) = 1
               THEN value[2][1]
               ELSE value
    IN  IF val = None THEN NewPropValue(typ, None, flag)
        ELSE IF IsOptional(typ) THEN
            LET inner == from_ref_value(typ[2], val, flag)
            IN  IF IsError(inner) THEN inner ELSE NewPropValue(typ, inner, flag)
        ELSE IF IsList(val) THEN
            IF ~IsSequence(typ) THEN Error("TypeError")
            ELSE LET rs == [i \in 1..Len(val[2]) |->
                                from_ref_value(typ[2], val[2][i], flag)]
                 IN  IF FirstError(rs) # None THEN FirstError(rs)
                     ELSE NewPropValue(typ, List(rs), flag)
        ELSE NewPropValue(typ, val, flag)

RECURSIVE from_ort_value(_, _, _)
\* PropValue.from_ort_value(typ, value)
from_ort_value(typ, value, flag) ==
    IF value = None THEN NewPropValue(typ, None, flag)
    ELSE IF IsOptional(typ) THEN
        LET inner == from_ort_value(typ[2], value, flag)
        IN  IF IsError(inner) THEN inner ELSE NewPropValue(typ, inner, flag)
    ELSE IF IsList(value) THEN
        IF ~IsSequence(typ) THEN Error("TypeError")
        ELSE LET rs == [i \in 1..Len(value[2]) |->
                            from_ort_value(typ[2], value[2][i], flag)]
             IN  IF FirstError(rs) # None THEN FirstError(rs)
                 ELSE NewPropValue(typ, List(rs), flag)
    ELSE IF IsNdArray(value) THEN
        NewPropValue(typ,
                     IF value[2] = "object" THEN NdArray("str", value[3]) ELSE value,
                     flag)
    ELSE Error("TypeError")

RECURSIVE to_ref_value(_)
\* PropValue.to_ref_value
to_ref_value(self) ==
    IF self[3] = None THEN None
    ELSE IF IsPropValue(self[3]) THEN List(<<to_ref_value(self[3])>>)
    ELSE IF IsList(self[3]) THEN
        List([i \in 1..Len(self[3][2]) |-> to_ref_value(self[3][2][i])])
    ELSE self[3]

\* PropValue.to_ort_value
to_ort_value(self) ==
    IF self[3] = None THEN None
    ELSE IF IsPropValue(self[3]) THEN to_ref_value(self[3])
    ELSE IF IsList(self[3]) THEN
        List([i \in 1..Len(self[3][2]) |-> to_ref_value(self[3][2][i])])
    ELSE self[3]

----------------------------------------------------------------------------
(* The PropValue operations as steps.  A caller constructs PropValues, the *)
(* payload of a new one being an array, None, the PropValue constructed    *)
(* last or a list of it, and converts the last one to a backend value and  *)
(* back.  propOp records the last operation:                               *)
(*   <<"new", type, value, "ok" or the exception class>>                   *)
(*   <<"check", result, warned>>, <<"set_strict">>,                        *)
(*   <<"to_ref">>, <<"from_ref">>, <<"to_ort">>, <<"from_ort">>            *)

Int64x3 == Tensor("int64", Dims(<<<<"int", 3>>>>))
Strx3 == Tensor("str", Dims(<<<<"int", 3>>>>))

Arrays ==
    { NdArray("int64", <<3>>), NdArray("int64", <<4>>),
      NdArray("longlong", <<3>>), NdArray("object", <<3>>) }

RECURSIVE Depth(_)
\* The number of PropValues nested below v.
Depth(v) ==
    IF IsPropValue(v[3]) THEN 1 + Depth(v[3])
    ELSE IF IsList(v[3]) /\ Len(v[3][2]) > 0 THEN 1 + Depth(v[3][2][1])
    ELSE 0

\* The payloads a caller passes, given the PropValue it holds.
Payloads(cur) ==
    {None, List(<<>>)} \cup Arrays \cup
    (IF cur = Absent \/ Depth(cur) >= MaxWrap THEN {}
     ELSE {cur} \cup {List([i \in 1..n |-> cur]) : n \in 1..MaxLen})

\* The Type that mirrors a payload.
Mirror(p) ==
    IF IsNdArray(p) THEN
        Tensor(IF p[2] = "object" THEN "str" ELSE DtypeByName(p[2]), ShapeFromSimple(p[3]))
    ELSE IF IsPropValue(p) THEN OptionalT(p[2])
    ELSE IF IsList(p) THEN
        SequenceT(IF Len(p[2]) > 0 THEN p[2][1][2] ELSE Int64x3)
    ELSE OptionalT(Int64x3)

\* The Types a caller declares for a payload: the mirroring one, Unknown and
\* one more of the payload's variant.
DeclTypes(p) ==
    {Mirror(p), Unknown} \cup
    (IF IsPropValue(p) THEN {OptionalT(Strx3)}
     ELSE IF IsList(p) THEN {SequenceT(Strx3)}
     ELSE {Int64x3})

\* VALUE_PROP_STRICT_CHECK = b
SetStrict(b) ==
    /\ strict' = b
    /\ propOp' = <<"set_strict">>
    /\ raw' = Absent
    /\ back' = Absent
    /\ UNCHANGED <<pv, typeVars, attrVars, publicVars>>

\* PropValue(t, p)
Construct(t, p) ==
    LET r == NewPropValue(t, p, strict)
    IN  /\ pv' = IF IsError(r) THEN pv ELSE r
        /\ propOp' = <<"new", t, p, IF IsError(r) THEN r[2] ELSE "ok">>
        /\ raw' = Absent
        /\ back' = Absent
        /\ UNCHANGED <<strict, typeVars, attrVars, publicVars>>

\* pv.check()
Check ==
    /\ pv # Absent
    /\ propOp' = <<"check", check(pv), CheckWarns(pv[2])>>
    /\ raw' = Absent
    /\ back' = Absent
    /\ UNCHANGED <<strict, pv, typeVars, attrVars, publicVars>>

\* pv.to_ref_value()
ToRefValue ==
    /\ pv # Absent
    /\ raw' = to_ref_value(pv)
    /\ back' = Absent
    /\ propOp' = <<"to_ref">>
    /\ UNCHANGED <<strict, pv, typeVars, attrVars, publicVars>>

\* PropValue.from_ref_value(pv.type, raw)
FromRefValue ==
    /\ propOp = <<"to_ref">>
    /\ back' = from_ref_value(pv[2], raw, strict)
    /\ propOp' = <<"from_ref">>
    /\ UNCHANGED <<strict, pv, raw, typeVars, attrVars, publicVars>>

\* pv.to_ort_value()
ToOrtValue ==
    /\ pv # Absent
    /\ raw' = to_ort_value(pv)
    /\ back' = Absent
    /\ propOp' = <<"to_ort">>
    /\ UNCHANGED <<strict, pv, typeVars, attrVars, publicVars>>

\* PropValue.from_ort_value(pv.type, raw)
FromOrtValue ==
    /\ propOp = <<"to_ort">>
    /\ back' = from_ort_value(pv[2], raw, strict)
    /\ propOp' = <<"from_ort">>
    /\ UNCHANGED <<strict, pv, raw, typeVars, attrVars, publicVars>>

PropInit ==
    /\ typeOp = NoOp
    /\ strict = FALSE
    /\ pv = Absent
    /\ propOp = NoOp
    /\ raw = Absent
    /\ back = Absent
    /\ attrs = <<>>
    /\ attrOp = NoOp
    /\ proto = Absent
    /\ walk = Absent
    /\ alias = {}
    /\ inlineOp = NoOp
    /\ buildSt = NoOp

PropNext ==
    \/ \E b \in BOOLEAN : SetStrict(b)
    \/ \E p \in Payloads(pv) : \E t \in DeclTypes(p) : Construct(t, p)
    \/ Check
    \/ ToRefValue
    \/ FromRefValue
    \/ ToOrtValue
    \/ FromOrtValue

PropSpec == PropInit /\ [][PropNext]_vars

----------------------------------------------------------------------------
(* Claims about propagated values.                                         *)

RECURSIVE ValidlyTyped(_)
\* v's payload mirrors v's Type at every level: an array of the declared
\* element kind with a shape below the declared one, a list of validly-typed
\* elements of the element Type, nothing, or a validly-typed value of the
\* element Type.
ValidlyTyped(v) ==
    LET t == v[2]
        p == v[3]
    IN  IF IsTensor(t) THEN
            IsNdArray(p) /\ p[2] = t[2] /\ ShapeLe(ShapeFromSimple(p[3]), t[3])
        ELSE IF IsSequence(t) THEN
            IsList(p) /\ \A i \in 1..Len(p[2]) :
                ValidlyTyped(p[2][i]) /\ StatedLe(p[2][i][2], t[2])
        ELSE IF IsOptional(t) THEN
            \/ p = None
            \/ IsPropValue(p) /\ ValidlyTyped(p) /\ StatedLe(p[2], t[2])
        ELSE FALSE

\* C1: for every validly-typed PropValue v, to_ref_value gives the absent
\* value for Optional-nothing and a one-element list around the inner value
\* for Optional-some, and from_ref_value(v.type, v.to_ref_value()) equals v,
\* at every nesting (Optional of Optional, Sequence of Optional, ...).
C1_RefRoundTrip ==
    (pv # Absent /\ ValidlyTyped(pv)) =>
        /\ (propOp \in {<<"to_ref">>, <<"from_ref">>} =>
                /\ (pv[3] = None => raw = None)
                /\ (IsPropValue(pv[3]) => IsList(raw) /\ Len(raw[2]) = 1))
        /\ (propOp = <<"from_ref">> => back = pv)

RECURSIVE StatedOrtValue(_)
\* The Backend B value of v as the specification states it: nothing is the
\* absent value, Optional-some is the inner value itself, a Sequence is the
\* list of its elements' values, a Tensor is its array.
StatedOrtValue(v) ==
    IF v[3] = None THEN None
    ELSE IF IsPropValue(v[3]) THEN StatedOrtValue(v[3])
    ELSE IF IsList(v[3]) THEN
        List([i \in 1..Len(v[3][2]) |-> StatedOrtValue(v[3][2][i])])
    ELSE v[3]

\* C2: for every validly-typed PropValue v, to_ort_value represents every
\* Optional-some as the inner value itself at every nesting depth, and
\* from_ort_value(v.type, v.to_ort_value()) succeeds and equals v.
C2_OrtRoundTrip ==
    (pv # Absent /\ ValidlyTyped(pv)) =>
        /\ (propOp \in {<<"to_ort">>, <<"from_ort">>} => raw = StatedOrtValue(pv))
        /\ (propOp = <<"from_ort">> => back = pv)

\* The payload as __post_init__ stores it.
StoredValue(p) ==
    IF IsNdArray(p) /\ p[2] = "longlong" THEN NdArray("int64", p[3]) ELSE p

\* C9: with the strict flag on a construction succeeds exactly when check()
\* is true of the value and fails with ValueError otherwise (shape (4,)
\* against declared (3,) fails); with the flag off it always succeeds; the
\* flag is read by each construction, and setting it leaves the values
\* constructed before as they are.
C9_StrictFlagReadAtConstruction ==
    [][ /\ propOp'[1] = "new" =>
              LET t == propOp'[2]
                  p == propOp'[3]
                  holds == check(PropValue(t, StoredValue(p)))
              IN  /\ propOp'[4] \in {"ok", "ValueError"}
                  /\ propOp'[4] = "ok" <=> (~strict \/ holds)
                  /\ propOp'[4] = "ok" => pv' = PropValue(t, StoredValue(p))
                  /\ propOp'[4] # "ok" => pv' = pv
                  /\ (t = Int64x3 /\ p = NdArray("int64", <<4>>))
                        => (propOp'[4] = "ok" <=> ~strict)
        /\ strict' # strict => pv' = pv
      ]_vars

\* The mismatching Tensor value was constructed with the flag off, the flag
\* was then set, and the same construction failed.
C9_Witness ==
    /\ strict
    /\ pv = PropValue(Int64x3, NdArray("int64", <<4>>))
    /\ propOp = <<"new", Int64x3, NdArray("int64", <<4>>), "ValueError">>

RECURSIVE StatedCheck(_)
\* check() as the specification states it: recursive through the payload.
StatedCheck(v) ==
    LET t == v[2]
        p == v[3]
    IN  IF IsTensor(t) THEN
            /\ IsNdArray(p)
            /\ ShapeLe(ShapeFromSimple(p[3]), t[3])
            /\ (p[2] = t[2] \/ (p[2] = "object" /\ t[2] = "str"))
        ELSE IF IsSequence(t) THEN
            IsList(p) /\ \A i \in 1..Len(p[2]) :
                StatedCheck(p[2][i]) /\ TypeLe(p[2][i][2], t[2])
        ELSE IF IsOptional(t) THEN
            \/ p = None
            \/ IsPropValue(p) /\ TypeLe(p[2], t[2]) /\ StatedCheck(p)
        ELSE TRUE

\* C10: check() is true for a Tensor type exactly when the payload is an
\* array of matching element kind with shape <= the declared shape, for a
\* Sequence type exactly when the payload is a list whose every element
\* validates and conforms to the element Type, for an Optional type exactly
\* when the payload is absent or a validating value whose type conforms to
\* the element Type; for an Unknown type it is true, with a warning.
C10_CheckValidatesRecursively ==
    propOp[1] = "check" =>
        /\ propOp[2] = StatedCheck(pv)
        /\ (IsUnknown(pv[2]) => propOp[2] /\ propOp[3])

----------------------------------------------------------------------------
(* Attribute values.                                                       *)
(*   an Attr object          <<"Attr", class, _value>>                     *)
(*   _Ref(concrete, name)    <<"_Ref", index of concrete in attrs, name>>  *)
(*   a scalar                <<"int", n>>, <<"float", tenths>>,            *)
(*                           <<"str", text>>, <<"bytes", text>>            *)
(*   a tuple                 <<"tuple", <<e1, ..., en>>>>                  *)
(*   other payloads          <<class, id>>: TensorProto, TypeProto,        *)
(*                           GraphProto, Graph, dtype, Type                *)
(*   AttributeProto          <<"AttributeProto", name, type, field,        *)
(*                             ref_attr_name>>                             *)
(*   AttributeProto.INT, ... <<"AttributeType", "INT">>, ...               *)
(*   a raised exception      <<"Error", class, what>>                      *)

Attr(cls, value) == <<"Attr", cls, value>>
Ref(concrete, outer_name) == <<"_Ref", concrete, outer_name>>
Tuple(es) == <<"tuple", es>>
Raise(cls, what) == <<"Error", cls, what>>
AttributeProto(name, type, field, ref_attr_name) ==
    <<"AttributeProto", name, type, field, ref_attr_name>>

AttributeType(name) == <<"AttributeType", name>>

IsRef(v) == v[1] = "_Ref"

AttrClasses ==
    { "AttrFloat32", "AttrInt64", "AttrString", "AttrTensor", "AttrType",
      "AttrDtype", "AttrGraph", "AttrFloat32s", "AttrInt64s", "AttrStrings",
      "AttrTensors" }

IterableClasses == {"AttrFloat32s", "AttrInt64s", "AttrStrings", "AttrTensors"}

\* cls._attribute_proto_type_int
attribute_proto_type_int(cls) ==
    CASE cls = "AttrFloat32"  -> AttributeType("FLOAT")
      [] cls = "AttrInt64"    -> AttributeType("INT")
      [] cls = "AttrString"   -> AttributeType("STRING")
      [] cls = "AttrTensor"   -> AttributeType("TENSOR")
      [] cls = "AttrType"     -> AttributeType("TYPE_PROTO")
      [] cls = "AttrDtype"    -> AttributeType("INT")
      [] cls = "AttrGraph"    -> AttributeType("GRAPH")
      [] cls = "AttrFloat32s" -> AttributeType("FLOATS")
      [] cls = "AttrInt64s"   -> AttributeType("INTS")
      [] cls = "AttrStrings"  -> AttributeType("STRINGS")
      [] cls = "AttrTensors"  -> AttributeType("TENSORS")

\* isinstance(value, collections.abc.Iterable), for a value that is no str
\* or bytes.
IsIterable(v) == v[1] \in {"list", "tuple", "ndarray"}

\* list(value): an array yields its scalars (a 0-d array cannot be iterated).
Elements(v) ==
    IF v[1] = "ndarray" THEN [i \in 1..v[3][1] |-> <<"int", 0>>] ELSE v[2]

\* issubclass(type(v), exp_t) for the abstract classes _deduce_type tries.
IsIntegral(v) == v[1] = "int"
IsReal(v) == v[1] \in {"int", "float"}
IsStrOrBytes(v) == v[1] \in {"str", "bytes"}

\* _deduce_type without the test for an empty iterable.
deduce_type_no_empty_test(value) ==
    CASE IsIntegral(value)          -> AttributeType("INT")
      [] value[1] = "float"         -> AttributeType("FLOAT")
      [] IsStrOrBytes(value)        -> AttributeType("STRING")
      [] value[1] = "TensorProto"   -> AttributeType("TENSOR")
      [] value[1] = "GraphProto"    -> AttributeType("GRAPH")
      [] value[1] = "TypeProto"     -> AttributeType("TYPE_PROTO")
      [] IsIterable(value) ->
            IF value[1] = "ndarray" /\ Len(value[3]) = 0
            THEN Raise("TypeError", "iteration over a 0-d array")
            ELSE LET es == Elements(value)
                     all(P(_)) == \A i \in 1..Len(es) : P(es[i])
                     IsTensorProto(e) == e[1] = "TensorProto"
                     IsGraphProto(e) == e[1] = "GraphProto"
                     IsTypeProto(e) == e[1] = "TypeProto"
                 IN  IF all(IsIntegral) THEN AttributeType("INTS")
                     ELSE IF all(IsReal) THEN AttributeType("FLOATS")
                     ELSE IF all(IsStrOrBytes) THEN AttributeType("STRINGS")
                     ELSE IF all(IsTensorProto) THEN AttributeType("TENSORS")
                     ELSE IF all(IsGraphProto) THEN AttributeType("GRAPHS")
                     ELSE IF all(IsTypeProto) THEN AttributeType("TYPE_PROTOS")
                     ELSE Raise("ValueError", "could not infer from the elements")
      [] OTHER -> Raise("TypeError", "not an accepted attribute value")

\* _deduce_type(value): the AttributeProto type of a payload, or the
\* exception it raises.
deduce_type(value) ==
    CASE IsIntegral(value)          -> AttributeType("INT")
      [] value[1] = "float"         -> AttributeType("FLOAT")
      [] IsStrOrBytes(value)        -> AttributeType("STRING")
      [] value[1] = "TensorProto"   -> AttributeType("TENSOR")
      [] value[1] = "GraphProto"    -> AttributeType("GRAPH")
      [] value[1] = "TypeProto"     -> AttributeType("TYPE_PROTO")
      [] IsIterable(value) ->
            IF value[1] = "ndarray" /\ Len(value[3]) = 0
            THEN Raise("TypeError", "iteration over a 0-d array")
            ELSE LET es == Elements(value)
                     all(P(_)) == \A i \in 1..Len(es) : P(es[i])
                     IsTensorProto(e) == e[1] = "TensorProto"
                     IsGraphProto(e) == e[1] = "GraphProto"
                     IsTypeProto(e) == e[1] = "TypeProto"
                 IN  IF Len(es) = 0
                     THEN Raise("ValueError", "could not infer from empty iterator")
                     ELSE IF all(IsIntegral) THEN AttributeType("INTS")
                     ELSE IF all(IsReal) THEN AttributeType("FLOATS")
                     ELSE IF all(IsStrOrBytes) THEN AttributeType("STRINGS")
                     ELSE IF all(IsTensorProto) THEN AttributeType("TENSORS")
                     ELSE IF all(IsGraphProto) THEN AttributeType("GRAPHS")
                     ELSE IF all(IsTypeProto) THEN AttributeType("TYPE_PROTOS")
                     ELSE Raise("ValueError", "could not infer from the elements")
      [] OTHER -> Raise("TypeError", "not an accepted attribute value")

\* One call of _deref(ref): either the recursive call it makes or the value
\* it returns.
DerefCall(as, ref) ==
    IF IsRef(as[ref[2]][3]) THEN <<"call", as[ref[2]][3]>>
    ELSE <<"return", as[ref[2]][3]>>

RECURSIVE deref(_, _)
\* _deref(ref)
deref(as, ref) ==
    LET step == DerefCall(as, ref)
    IN  IF step[1] = "call" THEN deref(as, step[2]) ELSE step[2]

\* Attr.value, for an attribute holding _value among the attributes as.
value(as, _value) == IF IsRef(_value) THEN deref(as, _value) ELSE _value


\* value.copy() in AttrTensor.__init__: arrays and lists have the method,
\* _Ref.copy returns the _Ref itself.
Copy(v) ==
    IF v[1] \in {"ndarray", "list", "_Ref"} THEN v
    ELSE Raise("AttributeError", "no attribute copy")

\* The items of a str (the texts used are one character long).
Chars(text) == <<<<"str", text>>>>

\* The items of a bytes object: integers (b"s"[0] is 115).
ByteValues(text) == <<<<"int", 115>>>>

\* tuple(value) in _AttrIterable.__init__
ToTuple(v) ==
    CASE v[1] \in {"list", "tuple"} -> Tuple(v[2])
      [] v[1] = "ndarray" ->
            IF Len(v[3]) = 0 THEN Raise("TypeError", "iteration over a 0-d array")
            ELSE Tuple(Elements(v))
      [] v[1] = "str"   -> Tuple(Chars(v[2]))
      [] v[1] = "bytes" -> Tuple(ByteValues(v[2]))
      [] OTHER -> Raise("TypeError", "object is not iterable")

\* dtype_to_tensor_type(value): the element-type code of a numpy dtype.
dtype_to_tensor_type(v) ==
    IF v[1] = "dtype"
    THEN <<"int", IF v[2] = "float32" THEN 1 ELSE 7>>
    ELSE Raise("TypeError", "not a tensor element type")

\* Attr._validate that accepts every value.
ValidateNothing(as, cls, _value) == None

\* cls._validate, on the fields of self: None, or the exception raised.
Validate(as, cls, _value) ==
    LET v == value(as, _value)
    IN  IF cls = "AttrDtype" THEN
            IF IsError(dtype_to_tensor_type(v)) THEN dtype_to_tensor_type(v) ELSE None
        ELSE IF cls = "AttrGraph" THEN
            IF v[1] # "Graph" THEN Raise("TypeError", "expected a Graph") ELSE None
        ELSE IF IsError(deduce_type(v)) THEN deduce_type(v)
        ELSE IF deduce_type(v) # attribute_proto_type_int(cls)
            THEN Raise("TypeError", "unable to instantiate")
        ELSE None

\* The argument cls.__init__ hands to Attr.__init__: AttrTensor copies it, an
\* _AttrIterable makes a tuple of anything but a _Ref.
SubclassInit(cls, arg) ==
    IF cls = "AttrTensor" THEN Copy(arg)
    ELSE IF cls \in IterableClasses /\ ~IsRef(arg) THEN ToTuple(arg)
    ELSE arg

\* cls(arg): __init__ of the class, then Attr.__init__; the new object or the
\* exception raised.
NewAttr(as, cls, arg) ==
    LET init == SubclassInit(cls, arg)
    IN  IF IsError(init) THEN init
        ELSE IF Validate(as, cls, init) # None THEN Validate(as, cls, init)
        ELSE Attr(cls, init)

\* onnx.helper.make_attribute(key, value, attr_type=...): the type is the
\* one given, else the one deduced from the value.
make_attribute(key, v, attr_type) ==
    AttributeProto(key, IF attr_type = None THEN deduce_type(v) ELSE attr_type, v, "")

\* float(v)
Float(v) == IF v[1] = "int" THEN <<"float", v[2] * 10>> ELSE v

\* cls._to_onnx_deref(key) for an attribute holding the payload v.
to_onnx_deref(cls, v, key) ==
    CASE cls = "AttrFloat32" -> make_attribute(key, Float(v), None)
      [] cls = "AttrInt64"   -> make_attribute(key, v, None)
      [] cls = "AttrString"  ->
            IF v[1] = "str" THEN make_attribute(key, <<"bytes", v[2]>>, None)
            ELSE Raise("AttributeError", "no attribute encode")
      [] cls = "AttrTensor"  -> make_attribute(key, <<"TensorProto", v>>, None)
      [] cls = "AttrType"    ->
            IF v[1] = "Type" /\ ~IsUnknown(v[2])
            THEN make_attribute(key, <<"TypeProto", v[2]>>, None)
            ELSE Raise("NotImplementedError", "")
      [] cls = "AttrDtype"   -> make_attribute(key, dtype_to_tensor_type(v), None)
      [] cls = "AttrGraph"   -> Raise("TypeError", "requires the build_subgraph callback")
      [] cls = "AttrFloat32s" ->
            make_attribute(key, Tuple([i \in 1..Len(v[2]) |-> Float(v[2][i])]), AttributeType("FLOATS"))
      [] cls = "AttrInt64s"  -> make_attribute(key, v, AttributeType("INTS"))
      [] cls = "AttrStrings" ->
            IF \A i \in 1..Len(v[2]) : v[2][i][1] = "str"
            THEN make_attribute(key,
                     Tuple([i \in 1..Len(v[2]) |-> <<"bytes", v[2][i][2]>>]), AttributeType("STRINGS"))
            ELSE Raise("AttributeError", "no attribute encode")
      [] cls = "AttrTensors" ->
            IF \A i \in 1..Len(v[2]) : v[2][i][1] = "ndarray"
            THEN make_attribute(key,
                     Tuple([i \in 1..Len(v[2]) |-> <<"TensorProto", v[2][i]>>]), AttributeType("TENSORS"))
            ELSE Raise("TypeError", "from_array of no array")

RECURSIVE to_onnx(_, _, _)
\* _Ref._to_onnx(key) that takes the kind of the referencing attribute's
\* class cls instead of serializing the concrete attribute.
RefToOnnxOwnKind(as, cls, ref, key) ==
    AttributeProto(key, attribute_proto_type_int(cls), None, ref[3])

\* _Ref._to_onnx(key), for the _Ref held by an attribute of class cls.
RefToOnnx(as, cls, ref, key) ==
    LET parent == to_onnx(as, as[ref[2]], key)
    IN  IF IsError(parent) THEN parent
        ELSE AttributeProto(key, parent[3], None, ref[3])

\* Attr._to_onnx(key)
to_onnx(as, self, key) ==
    IF IsRef(self[3]) THEN RefToOnnx(as, self[2], self[3], key)
    ELSE to_onnx_deref(self[2], self[3], key)

----------------------------------------------------------------------------
(* The attribute operations as steps.  The class and the literal of the    *)
(* first construction are drawn at the start; attrs holds the attribute    *)
(* built from them and the referencing attributes built on it since, in    *)
(* the order of construction.  attrOp records the last operation:          *)
(*   <<"args", class, literal>>           the construction still to make   *)
(*   <<"new", class, argument, outcome>>  outcome Ok or the exception      *)
(*   <<"to_onnx", index, key>>, <<"value", index>>                         *)
(*   <<"argument", Type, the Var returned or the exception>>               *)
(*   <<"mutate", index, item>>            the caller wrote to its object   *)

IntV(n) == <<"int", n>>
FloatV(tenths) == <<"float", tenths>>
StrV(text) == <<"str", text>>
Ok == <<"ok">>

Literals ==
    { IntV(7), FloatV(25), StrV("s"), <<"bytes", "s">>,
      NdArray("int64", <<3>>), <<"TensorProto", "t">>, <<"TypeProto", "tp">>,
      <<"Type", Int64x3>>, <<"Type", Unknown>>, <<"Type", SequenceT(Int64x3)>>,
      <<"Type", Tensor("float32", NoRank)>>,
      <<"dtype", "float32">>, <<"Graph", "g">>,
      <<"GraphProto", "gp">>,
      List(<<>>), List(<<IntV(1), IntV(2)>>), List(<<IntV(2), IntV(1)>>),
      List(<<FloatV(15), FloatV(25)>>), List(<<IntV(1), FloatV(25)>>),
      List(<<IntV(1), StrV("s")>>), List(<<StrV("a"), StrV("b")>>),
      List(<<NdArray("int64", <<3>>)>>), List(<<<<"TensorProto", "t">>>>) }

OuterNames == {"alpha", "beta"}
Keys == {"alpha", "k"}

\* The _Ref objects a caller can make: to any attribute there is.
Refs == {Ref(j, n) : j \in 1..Len(attrs), n \in OuterNames}

\* The objects that can be changed in place: arrays and protobuf messages.
IsMutable(v) == v[1] \in {"ndarray", "TensorProto", "TypeProto", "GraphProto"}

\* The object after its owner wrote to it: the same object (class and, for
\* an array, shape) with other contents.
Written(v) == [v EXCEPT ![2] = "written"]

\* Var: the variable a node outputs, of the given Type.
Var(type) == <<"Var", type>>

\* argument(typ): the Var of a new Argument node, or the exception raised
\* while its attributes are built.
argument(typ) ==
    LET type == NewAttr(<<>>, "AttrType", <<"Type", typ>>)
    IN  IF IsError(type) THEN type ELSE Var(typ)

\* The places of the new attribute i = cls(arg) that hold an object of the
\* caller: <<i, 0>> is its _value, <<i, k>> the k-th item of its tuple.
\* value.copy() makes a new object, tuple(value) a new tuple of the items
\* of a list themselves (the items of a str, bytes or array are made anew),
\* and every other class keeps the argument.
Shared(i, cls, arg) ==
    IF IsRef(arg) THEN {}
    ELSE IF cls = "AttrTensor" THEN {}
    ELSE IF cls \in IterableClasses
    THEN IF arg[1] \in {"list", "tuple"}
         THEN {<<i, k>> : k \in {n \in 1..Len(arg[2]) : IsMutable(arg[2][n])}}
         ELSE {}
    ELSE IF IsMutable(arg) THEN {<<i, 0>>} ELSE {}

\* cls(arg)
NewAttribute(cls, arg) ==
    LET r == NewAttr(attrs, cls, arg)
    IN  /\ IF IsRef(arg) THEN Len(attrs) <= MaxRefs
           ELSE attrOp[1] = "args" /\ attrOp[2] = cls /\ attrOp[3] = arg
        /\ attrs' = IF IsError(r) THEN attrs ELSE Append(attrs, r)
        /\ attrOp' = <<"new", cls, arg, IF IsError(r) THEN r ELSE Ok>>
        /\ proto' = Absent
        /\ walk' = Absent
        /\ alias' = IF IsError(r) THEN alias
                    ELSE alias \cup Shared(Len(attrs) + 1, cls, arg)
        /\ UNCHANGED <<typeVars, propVars, publicVars>>

\* argument(typ), for the Type drawn at the start.
Argument ==
    /\ attrOp[1] = "args"
    /\ attrOp[3][1] = "Type"
    /\ attrOp' = <<"argument", attrOp[3][2], argument(attrOp[3][2])>>
    /\ proto' = Absent
    /\ walk' = Absent
    /\ UNCHANGED <<attrs, alias, typeVars, propVars, publicVars>>

\* The caller writes to an object it passed to a constructor and that the
\* attribute i holds: as its _value (k = 0) or as item k of its tuple.
Mutate(i, k) ==
    /\ <<i, k>> \in alias
    /\ attrs' = IF k = 0 THEN [attrs EXCEPT ![i][3] = Written(@)]
                ELSE [attrs EXCEPT ![i][3][2][k] = Written(@)]
    /\ attrOp' = <<"mutate", i, k>>
    /\ proto' = Absent
    /\ walk' = Absent
    /\ UNCHANGED <<alias, typeVars, propVars, publicVars>>

\* attrs[i]._to_onnx(key)
ToOnnx(i, key) ==
    /\ proto' = to_onnx(attrs, attrs[i], key)
    /\ attrOp' = <<"to_onnx", i, key>>
    /\ walk' = Absent
    /\ UNCHANGED <<attrs, alias, typeVars, propVars, publicVars>>

\* attrs[i].value is read: the property returns the payload at once, or calls
\* _deref.  walk is <<"deref", i, ref, calls>> while _deref(ref) runs and
\* <<"done", i, result, calls>> once the property has returned.
ReadValue(i) ==
    /\ walk' = IF IsRef(attrs[i][3])
               THEN <<"deref", i, attrs[i][3], 1>>
               ELSE <<"done", i, attrs[i][3], 0>>
    /\ attrOp' = <<"value", i>>
    /\ proto' = Absent
    /\ UNCHANGED <<attrs, alias, typeVars, propVars, publicVars>>

\* _deref without the recursive call: it returns what the attribute it was
\* given holds.
DerefStepNoRecursion ==
    /\ walk[1] = "deref"
    /\ walk' = <<"done", walk[2], attrs[walk[3][2]][3], walk[4]>>
    /\ UNCHANGED <<attrs, attrOp, proto, alias, typeVars, propVars, publicVars>>

\* The running _deref(ref) either recurses or returns.
DerefStep ==
    /\ walk[1] = "deref"
    /\ LET step == DerefCall(attrs, walk[3])
       IN  walk' = IF step[1] = "call"
                   THEN <<"deref", walk[2], step[2], walk[4] + 1>>
                   ELSE <<"done", walk[2], step[2], walk[4]>>
    /\ UNCHANGED <<attrs, attrOp, proto, alias, typeVars, propVars, publicVars>>

AttrInit ==
    /\ typeOp = NoOp
    /\ strict = FALSE
    /\ pv = Absent
    /\ propOp = NoOp
    /\ raw = Absent
    /\ back = Absent
    /\ attrs = <<>>
    /\ \E cls \in AttrClasses : \E arg \in Literals : attrOp = <<"args", cls, arg>>
    /\ proto = Absent
    /\ walk = Absent
    /\ alias = {}
    /\ inlineOp = NoOp
    /\ buildSt = NoOp

AttrNext ==
    \/ \E cls \in AttrClasses : \E arg \in Literals \cup Refs : NewAttribute(cls, arg)
    \/ \E i \in 1..Len(attrs) : \E key \in Keys : ToOnnx(i, key)
    \/ \E i \in 1..Len(attrs) : ReadValue(i)
    \/ DerefStep
    \/ Argument
    \/ \E place \in alias : Mutate(place[1], place[2])

AttrSpec == AttrInit /\ [][AttrNext]_vars

----------------------------------------------------------------------------
(* Claims about attributes.                                                *)

RECURSIVE ChainEnd(_, _)
\* The index of the concrete attribute at the end of the chain of attrs[i].
ChainEnd(as, i) ==
    IF IsRef(as[i][3]) THEN ChainEnd(as, as[i][3][2]) ELSE i

RECURSIVE ChainDepth(_, _)
\* The number of references between attrs[i] and that concrete attribute.
ChainDepth(as, i) ==
    IF IsRef(as[i][3]) THEN 1 + ChainDepth(as, as[i][3][2]) ELSE 0

\* What each class accepts as the dereferenced payload v.
Accepted(cls, v) ==
    CASE cls = "AttrDtype" -> ~IsError(dtype_to_tensor_type(v))
      [] cls = "AttrGraph" -> v[1] = "Graph"
      [] OTHER -> deduce_type(v) = attribute_proto_type_int(cls)

AllAccepted ==
    \A i \in 1..Len(attrs) : Accepted(attrs[i][2], value(attrs, attrs[i][3]))

\* C5, as stated: every attribute object that was constructed, of any class,
\* has a dereferenced payload whose deduced kind is the declared kind of its
\* class.
C5_DeducedKindIsDeclaredKind ==
    \A i \in 1..Len(attrs) :
        deduce_type(value(attrs, attrs[i][3])) =
            attribute_proto_type_int(attrs[i][2])

\* C5, amended: a construction succeeds exactly when the argument survives
\* the class's __init__ and the dereferenced payload is accepted: by a class
\* with Attr._validate when its deduced kind is the declared kind, by
\* AttrDtype when dtype_to_tensor_type takes it, by AttrGraph when it is a
\* Graph.  A failed construction leaves the attributes as they were, a
\* successful one adds the new object, and every attribute that exists is
\* accepted by its class.
C5_ConstructionValidatesPayload ==
    [][attrOp'[1] = "new" =>
          LET cls == attrOp'[2]
              init == SubclassInit(cls, attrOp'[3])
              out == attrOp'[4]
          IN  /\ (out = Ok) <=>
                    (~IsError(init) /\ Accepted(cls, value(attrs, init)))
              /\ out # Ok => attrs' = attrs
              /\ out = Ok => attrs' = Append(attrs, Attr(cls, init))
              /\ AllAccepted']_vars

\* An AttrDtype was built on a reference to another AttrDtype, whose payload
\* no kind can be deduced from.
C5_Witness ==
    /\ attrOp[1] = "new"
    /\ attrOp[2] = "AttrDtype"
    /\ IsRef(attrOp[3])
    /\ attrOp[4] = Ok
    /\ Len(attrs) = 2
    /\ IsError(deduce_type(value(attrs, attrs[2][3])))

IsIntList(arg) ==
    /\ arg[1] = "list"
    /\ Len(arg[2]) > 0
    /\ \A i \in 1..Len(arg[2]) : arg[2][i][1] = "int"

IsMixedList(arg) ==
    /\ arg[1] = "list"
    /\ \E i, j \in 1..Len(arg[2]) : arg[2][i][1] # arg[2][j][1]

\* The exceptions of the three ways a construction fails on its payload.
AmbiguousEmptyAttribute == Raise("ValueError", "could not infer from empty iterator")
AttributeKindMismatch == Raise("TypeError", "unable to instantiate")
NoCommonKind == Raise("ValueError", "could not infer from the elements")

\* AttrInt64s(arg) of a literal has just run.
Int64sBuilt ==
    /\ attrOp[1] = "new"
    /\ attrOp[2] = "AttrInt64s"
    /\ ~IsRef(attrOp[3])

\* attrs[1], an AttrInt64s, has just been serialized.
Int64sSerialized ==
    /\ attrOp[1] = "to_onnx"
    /\ attrOp[2] = 1
    /\ attrs[1][2] = "AttrInt64s"

\* The serialization of a constructed AttrInt64s is the INTS AttributeProto
\* holding the elements of its tuple in order.
Int64sProto ==
    /\ proto[1] = "AttributeProto"
    /\ proto[2] = attrOp[3]
    /\ proto[3] = AttributeType("INTS")
    /\ proto[4][1] = "tuple"
    /\ proto[4][2] = attrs[1][3][2]
    /\ proto[5] = ""

\* C6, as stated: AttrInt64s of a non-empty list of integers succeeds and
\* serializes to INTS with the elements in order; of an empty list it fails
\* with the empty-iterable error; of a list of mixed kinds it fails with the
\* kind-mismatch error of _validate.
C6_ListConstructionOutcomes ==
    /\ Int64sBuilt =>
          /\ IsIntList(attrOp[3]) =>
                attrOp[4] = Ok /\ attrs = <<Attr("AttrInt64s", Tuple(attrOp[3][2]))>>
          /\ attrOp[3] = List(<<>>) => attrOp[4] = AmbiguousEmptyAttribute
          /\ IsMixedList(attrOp[3]) => attrOp[4] = AttributeKindMismatch
    /\ Int64sSerialized => Int64sProto

\* C6, amended: AttrInt64s of a non-empty list of integers succeeds and
\* serializes to INTS with the elements in order; of an empty list it fails
\* with the ValueError of the empty iterable; of a list whose elements are
\* all real numbers but not all integers it fails with the TypeError of
\* _validate; of a mixed list with an element that is no number it fails in
\* _deduce_type with a ValueError, the exception class of the empty case.
C6_ListOutcomesByDeduction ==
    /\ Int64sBuilt =>
          /\ IsIntList(attrOp[3]) =>
                attrOp[4] = Ok /\ attrs = <<Attr("AttrInt64s", Tuple(attrOp[3][2]))>>
          /\ attrOp[3] = List(<<>>) => attrOp[4] = AmbiguousEmptyAttribute
          /\ IsMixedList(attrOp[3]) =>
                IF \A i \in 1..Len(attrOp[3][2]) : IsReal(attrOp[3][2][i])
                THEN attrOp[4] = AttributeKindMismatch
                ELSE /\ attrOp[4] = NoCommonKind
                     /\ attrOp[4][2] = AmbiguousEmptyAttribute[2]
          /\ attrOp[4] # Ok => attrs = <<>>
    /\ Int64sSerialized => Int64sProto

\* AttrInt64s([1, "s"]) raised the ValueError of _deduce_type.
C6_Witness ==
    /\ Int64sBuilt
    /\ attrOp[3] = List(<<IntV(1), StrV("s")>>)
    /\ attrOp[4] = NoCommonKind
    /\ attrs = <<>>

\* attrs[i] has just been serialized under the key attrOp[3].
Serialized(i) == attrOp[1] = "to_onnx" /\ attrOp[2] = i

\* proto is the marker of a reference: the key, the kind, the outer name and
\* no payload.
IsMarker(key, kind, outer_name) ==
    /\ proto[1] = "AttributeProto"
    /\ proto[2] = key
    /\ proto[3] = kind
    /\ proto[4][1] = "None"
    /\ proto[5] = outer_name

\* proto carries a literal payload and names no outer attribute.
IsLiteral(key) ==
    /\ proto[1] = "AttributeProto"
    /\ proto[2] = key
    /\ proto[4][1] # "None"
    /\ proto[5] = ""

\* C7, as stated: serializing a referencing attribute under a key succeeds
\* for every kind and depth, and gives the marker with that key, the outer
\* name of the attribute's own reference and the declared kind of the
\* concrete attribute at the end of the chain, without a payload;
\* serializing that concrete attribute gives the literal payload.
C7_ReferenceSerializesToMarker ==
    \A i \in 1..Len(attrs) :
        Serialized(i) =>
            IF IsRef(attrs[i][3])
            THEN IsMarker(attrOp[3],
                          attribute_proto_type_int(attrs[ChainEnd(attrs, i)][2]),
                          attrs[i][3][3])
            ELSE IsLiteral(attrOp[3])

\* C7, amended: serializing a referencing attribute under a key succeeds
\* exactly when serializing the concrete attribute at the end of its chain
\* under that key does, and then gives the marker with that key, the outer
\* name of the attribute's own reference and the declared kind of that
\* concrete attribute, without a payload; otherwise it raises what the
\* concrete attribute raises, as for every AttrGraph.  A concrete attribute
\* that serializes gives the literal payload.
C7_MarkerWhenConcreteSerializes ==
    \A i \in 1..Len(attrs) :
        Serialized(i) =>
            LET end == attrs[ChainEnd(attrs, i)]
                literal == to_onnx_deref(end[2], end[3], attrOp[3])
            IN  /\ end[2] = "AttrGraph" =>
                      proto = Raise("TypeError", "requires the build_subgraph callback")
                /\ IsError(literal) => proto = literal
                /\ ~IsError(literal) =>
                      IF IsRef(attrs[i][3])
                      THEN IsMarker(attrOp[3], attribute_proto_type_int(end[2]),
                                    attrs[i][3][3])
                      ELSE IsLiteral(attrOp[3]) /\ proto = literal

\* AttrFloat32(2.5), a reference to it named alpha, a reference to that one
\* named beta: the last one serialized to the FLOAT marker named beta.
C7_Witness ==
    /\ Len(attrs) = 3
    /\ Serialized(3)
    /\ attrs[1] = Attr("AttrFloat32", FloatV(25))
    /\ attrs[2] = Attr("AttrFloat32", Ref(1, "alpha"))
    /\ attrs[3] = Attr("AttrFloat32", Ref(2, "beta"))
    /\ IsMarker(attrOp[3], AttributeType("FLOAT"), "beta")

\* C8: every reference is to an attribute built before (so no chain has a
\* cycle); while _deref runs, the calls made so far and the references still
\* ahead add up to the depth of the chain; when .value has returned, the
\* calls made are as many as the chain is deep and the result is the payload
\* of the concrete attribute at its end.
C8_DerefTakesChainDepthSteps ==
    /\ \A i \in 1..Len(attrs) :
          IsRef(attrs[i][3]) => attrs[i][3][2] \in 1..(i - 1)
    /\ walk[1] = "deref" =>
          /\ IsRef(walk[3])
          /\ walk[4] + ChainDepth(attrs, walk[3][2]) = ChainDepth(attrs, walk[2])
    /\ walk[1] = "done" =>
          /\ walk[4] = ChainDepth(attrs, walk[2])
          /\ ~IsRef(walk[3])
          /\ walk[3] = attrs[ChainEnd(attrs, walk[2])][3]

\* .value of the second reference of a chain returned the payload 2.5 of
\* the concrete attribute after two calls of _deref.
C8_Witness ==
    /\ walk[1] = "done"
    /\ walk[2] = 3
    /\ walk[4] = 2
    /\ attrs[1] = Attr("AttrFloat32", FloatV(25))
    /\ ChainEnd(attrs, 3) = 1
    /\ walk[3] = FloatV(25)

\* The literal is of the kind the class is declared for.
MatchingLiteral(cls, arg) ==
    LET items(kind) == /\ arg[1] = "list"
                       /\ Len(arg[2]) > 0
                       /\ \A i \in 1..Len(arg[2]) : arg[2][i][1] = kind
    IN  CASE cls = "AttrFloat32"  -> arg[1] = "float"
          [] cls = "AttrInt64"    -> arg[1] = "int"
          [] cls = "AttrString"   -> arg[1] \in {"str", "bytes"}
          [] cls = "AttrTensor"   -> arg[1] = "ndarray"
          [] cls = "AttrType"     -> arg[1] = "Type"
          [] cls = "AttrDtype"    -> arg[1] = "dtype"
          [] cls = "AttrGraph"    -> arg[1] = "Graph"
          [] cls = "AttrFloat32s" -> items("float")
          [] cls = "AttrInt64s"   -> items("int")
          [] cls = "AttrStrings"  -> items("str")
          [] cls = "AttrTensors"  -> items("ndarray")

\* C12: constructing an attribute of any class from a literal of its kind
\* succeeds and gives an attribute of that class, AttrType from a Type and
\* AttrTensor from an array included, and argument(typ) returns a Var for
\* every Type.
C12_MatchingLiteralConstructs ==
    /\ (attrOp[1] = "new" /\ ~IsRef(attrOp[3])
            /\ MatchingLiteral(attrOp[2], attrOp[3])) =>
          /\ attrOp[4] = Ok
          /\ Len(attrs) = 1
          /\ attrs[1][2] = attrOp[2]
    /\ attrOp[1] = "argument" => attrOp[3] = Var(attrOp[2])

\* The payload a concrete attribute of the class serializes to, where the
\* class encodes it: strings as bytes, numbers of the float classes as
\* floats.
EncodedPayload(cls, v) ==
    CASE cls = "AttrString"   -> <<"bytes", v[2]>>
      [] cls = "AttrFloat32"  -> <<"float", IF v[1] = "int" THEN v[2] * 10 ELSE v[2]>>
      [] cls = "AttrStrings"  ->
            Tuple([i \in 1..Len(v[2]) |-> <<"bytes", v[2][i][2]>>])
      [] cls = "AttrFloat32s" ->
            Tuple([i \in 1..Len(v[2]) |->
                      <<"float", IF v[2][i][1] = "int" THEN v[2][i][2] * 10
                                 ELSE v[2][i][2]>>])
      [] OTHER -> proto[4]

\* C13: serializing a concrete attribute under a key gives, for every class
\* but AttrGraph, an AttributeProto with that key, the declared kind of the
\* class and the payload (strings as bytes whether they were given as str or
\* as bytes, floats as floats); for AttrGraph it raises the TypeError that
\* asks for the build_subgraph callback.
C13_ConcreteAttributeSerializes ==
    \A i \in 1..Len(attrs) :
        (Serialized(i) /\ ~IsRef(attrs[i][3])) =>
            IF attrs[i][2] = "AttrGraph"
            THEN proto = Raise("TypeError", "requires the build_subgraph callback")
            ELSE /\ IsLiteral(attrOp[3])
                 /\ proto[3] = attribute_proto_type_int(attrs[i][2])
                 /\ proto[4] = EncodedPayload(attrs[i][2], attrs[i][3])

\* C14: a write of the caller to an object it passed to AttrTensor or, in a
\* list, to AttrTensors changes neither .value nor the serialization of any
\* such attribute.
C14_TensorPayloadsNotAliased ==
    [][attrOp'[1] = "mutate" =>
          \A i \in 1..Len(attrs) :
              attrs[i][2] \in {"AttrTensor", "AttrTensors"} =>
                  /\ value(attrs', attrs'[i][3]) = value(attrs, attrs[i][3])
                  /\ \A key \in Keys :
                        to_onnx(attrs', attrs'[i], key) = to_onnx(attrs, attrs[i], key)]_vars

----------------------------------------------------------------------------
(* inline(model) and the callback it returns.                              *)
(*   a positional argument       <<"Var", "pos", p>>                       *)
(*   a keyword argument          <<"Var", "kw", name>>                     *)
(*   constant(initializer)       <<"Var", "constant", name>>               *)
(* inlineOp is <<"model", in_names, in_defaults>> for the model at hand,   *)
(* <<"inline", in_names, in_defaults>> once inline(model) has returned and *)
(* <<"done", in_names, in_defaults, args, keywords, outcome>> after a call *)
(* of the callback; the outcome is <<"_Inline", inputs>> for the node made *)
(* or the exception.                                                       *)

InputNames == {"x", "y", "w"}
KeywordNames == InputNames \cup {"z"}
PosNames == <<"p1", "p2", "p3", "p4">>

Range(f) == {f[i] : i \in DOMAIN f}

\* The lists of distinct names of at most n model inputs.
InputLists(n) ==
    {ns \in TuplesUpTo(InputNames, n) : \A i, j \in 1..Len(ns) : ns[i] = ns[j] => i = j}

\* The number of pairs of zip(in_names, args): it stops at the shorter one.
ZipLength(in_names, args) ==
    IF Len(args) < Len(in_names) THEN Len(args) ELSE Len(in_names)

\* inline_inner(*args, **kwargs), kwargs holding the keywords kws.
inline_inner(in_names, in_defaults, args, kws) ==
    LET n == ZipLength(in_names, args)
        \* the keys of kwargs when the loop meets the pair i
        keysAt(i) == kws \cup {in_names[j] : j \in 1..(i - 1)}
        positional == {in_names[j] : j \in 1..n}
        missing == Range(in_names) \ (kws \cup positional)
        keys == kws \cup positional \cup missing
        bound(name) ==
            IF \E j \in 1..n : in_names[j] = name
            THEN <<"Var", "pos", PosNames[CHOOSE j \in 1..n : in_names[j] = name]>>
            ELSE IF name \in kws THEN <<"Var", "kw", name>>
            ELSE <<"Var", "constant", name>>
    IN  IF \E i \in 1..n : in_names[i] \in keysAt(i)
        THEN Raise("TypeError", "multiple values for argument")
        ELSE IF ~(missing \subseteq in_defaults)
        THEN Raise("TypeError", "missing required arguments")
        ELSE IF keys # Range(in_names)
        THEN Raise("TypeError", "error processing arguments")
        ELSE <<"_Inline", [i \in 1..Len(in_names) |-> bound(in_names[i])]>>

\* inline(model)
Inline ==
    /\ inlineOp[1] = "model"
    /\ inlineOp' = <<"inline", inlineOp[2], inlineOp[3]>>
    /\ UNCHANGED <<buildSt, typeVars, propVars, attrVars>>

\* A call of the callback with Len(args) positional arguments and the
\* keywords kws.
Call(args, kws) ==
    /\ inlineOp[1] \in {"inline", "done"}
    /\ inlineOp' = <<"done", inlineOp[2], inlineOp[3], args, kws,
                    inline_inner(inlineOp[2], inlineOp[3], args, kws)>>
    /\ UNCHANGED <<buildSt, typeVars, propVars, attrVars>>

InlineInit ==
    /\ typeOp = NoOp
    /\ strict = FALSE
    /\ pv = Absent
    /\ propOp = NoOp
    /\ raw = Absent
    /\ back = Absent
    /\ attrs = <<>>
    /\ attrOp = NoOp
    /\ proto = Absent
    /\ walk = Absent
    /\ alias = {}
    /\ \E in_names \in InputLists(MaxInputs) : \E in_defaults \in SUBSET InputNames :
          inlineOp = <<"model", in_names, in_defaults>>
    /\ buildSt = NoOp

InlineNext ==
    \/ Inline
    \/ \E n \in 0..MaxArgs : \E kws \in SUBSET KeywordNames :
          Call([i \in 1..n |-> <<"Var", "pos", PosNames[i]>>], kws)

InlineSpec == InlineInit /\ [][InlineNext]_vars

\* The arguments of a call are supplied incorrectly: a model input is given
\* both positionally and by keyword, a model input is left unspecified and
\* has no initializer, a keyword names no model input, or there are more
\* positional arguments than model inputs.
SuppliedIncorrectly(in_names, in_defaults, args, kws) ==
    \/ \E i \in 1..Len(in_names) : i <= Len(args) /\ in_names[i] \in kws
    \/ \E i \in 1..Len(in_names) :
          i > Len(args) /\ in_names[i] \notin kws /\ in_names[i] \notin in_defaults
    \/ \E k \in kws : k \notin Range(in_names)
    \/ Len(args) > Len(in_names)

\* The inputs of the node for a call that is supplied correctly.
StatedInputs(in_names, args, kws) ==
    [i \in 1..Len(in_names) |->
        IF i <= Len(args) THEN args[i]
        ELSE IF in_names[i] \in kws THEN <<"Var", "kw", in_names[i]>>
        ELSE <<"Var", "constant", in_names[i]>>]

\* C16: the callback raises TypeError whenever its arguments are supplied
\* incorrectly; otherwise the node gets, in the order of the model's inputs,
\* the positional arguments, then for each remaining input its keyword
\* argument or else the constant of its initializer.
C16_InlineRejectsIncorrectArguments ==
    inlineOp[1] = "done" =>
        IF SuppliedIncorrectly(inlineOp[2], inlineOp[3], inlineOp[4], inlineOp[5])
        THEN inlineOp[6][1] = "Error" /\ inlineOp[6][2] = "TypeError"
        ELSE /\ inlineOp[6][1] = "_Inline"
             /\ inlineOp[6][2] = StatedInputs(inlineOp[2], inlineOp[4], inlineOp[5])

----------------------------------------------------------------------------
(* build(inputs, outputs).  A Var is known by its identity; its _name is   *)
(* None or <<"str", name>>.  buildSt is                                    *)
(*   <<phase, inputs, are_vars, names, pre, before>>                       *)
(* inputs: the items <<key, Var>> of the dict in order; are_vars: whether  *)
(* all values of inputs and outputs are Vars; names: the _name of every    *)
(* Var now; pre: the dict of _temporary_renames; before: the names when    *)
(* build was called.  The phases: "build" (called), "with" (inside the     *)
(* with block), "returning" / "raising" (the block has ended, the finally  *)
(* clause is to run), "returned" / "raised" (build is over).               *)

VarIds == {"v1", "v2"}
BuildKeys == {"a", "b", "c"}
VarNames == {None, <<"str", "old">>}

\* The dicts of at most n inputs: the keys of a dict are distinct.
InputDicts(n) ==
    {d \in TuplesUpTo(BuildKeys \X VarIds, n) :
        \A i, j \in 1..Len(d) : d[i][1] = d[j][1] => i = j}

\* pre[arg] = name
DictSet(pre, arg, name) ==
    [v \in DOMAIN pre \cup {arg} |-> IF v = arg THEN name ELSE pre[v]]

RECURSIVE Renamed(_, _, _, _)
\* The try block of _temporary_renames from the item k on: the names and pre
\* when it yields.
Renamed(inputs, k, names, pre) ==
    IF k > Len(inputs) THEN <<names, pre>>
    ELSE LET name == inputs[k][1]
             arg == inputs[k][2]
         IN  Renamed(inputs, k + 1,
                     [names EXCEPT ![arg] = <<"str", name>>],
                     DictSet(pre, arg, names[arg]))

\* The finally block of _temporary_renames: every key of pre gets the name
\* pre holds for it.
Restored(names, pre) ==
    [v \in DOMAIN names |-> IF v \in DOMAIN pre THEN pre[v] ELSE names[v]]

\* build is called: the isinstance tests, then the with statement is entered.
Build ==
    /\ buildSt[1] = "build"
    /\ buildSt' =
          IF ~buildSt[3] THEN [buildSt EXCEPT ![1] = "raised"]
          ELSE LET r == Renamed(buildSt[2], 1, buildSt[4], buildSt[5])
               IN  [buildSt EXCEPT ![1] = "with", ![4] = r[1], ![5] = r[2]]
    /\ UNCHANGED <<inlineOp, typeVars, propVars, attrVars>>

\* The with block: the graph is built and returned, or building raises.
BuildBody(raises) ==
    /\ buildSt[1] = "with"
    /\ buildSt' = [buildSt EXCEPT ![1] = IF raises THEN "raising" ELSE "returning"]
    /\ UNCHANGED <<inlineOp, typeVars, propVars, attrVars>>

\* The with statement is left: the finally block runs and build is over.
BuildExit ==
    /\ buildSt[1] \in {"returning", "raising"}
    /\ buildSt' = [buildSt EXCEPT
                      ![1] = IF buildSt[1] = "raising" THEN "raised" ELSE "returned",
                      ![4] = Restored(buildSt[4], buildSt[5])]
    /\ UNCHANGED <<inlineOp, typeVars, propVars, attrVars>>

BuildInit ==
    /\ typeOp = NoOp
    /\ strict = FALSE
    /\ pv = Absent
    /\ propOp = NoOp
    /\ raw = Absent
    /\ back = Absent
    /\ attrs = <<>>
    /\ attrOp = NoOp
    /\ proto = Absent
    /\ walk = Absent
    /\ alias = {}
    /\ inlineOp = NoOp
    /\ \E inputs \in InputDicts(MaxInputs) : \E are_vars \in BOOLEAN :
          \E names \in [VarIds -> VarNames] :
              buildSt = <<"build", inputs, are_vars, names, <<>>, names>>

BuildNext ==
    \/ Build
    \/ \E raises \in BOOLEAN : BuildBody(raises)
    \/ BuildExit

BuildSpec == BuildInit /\ [][BuildNext]_vars

\* C17: when build has returned or raised, every Var has the name it had
\* when build was called, whatever the inputs (one Var under two keys
\* included); inside the with block every input Var has its key as name.
C17_BuildLeavesNamesUnchanged ==
    /\ buildSt[1] \in {"returned", "raised"} =>
          \A v \in VarIds : buildSt[4][v] = buildSt[6][v]
    /\ buildSt[1] = "with" =>
          \A k \in 1..Len(buildSt[2]) :
              buildSt[4][buildSt[2][k][2]] = <<"str", buildSt[2][k][1]>>

====
